---- MODULE Spec2Model ----
(***************************************************************************)
(* Model of the TORQUE/PBS batch submission scripts batch_registration.py  *)
(* and multi_registration.py: the BatchJob descriptor with its attribute   *)
(* counting setters, BatchJob.submit with the attropl list it builds and   *)
(* the pbs calls it makes, and the main() loops that submit one job per    *)
(* stack (or pair of stacks) of a directory.  The BatchJob class is the    *)
(* same text in both files; line numbers are those of batch_registration.  *)
(***************************************************************************)
EXTENDS Integers, Sequences, FiniteSets, TLC

VARIABLES
    job,        \* the BatchJob object: its properties, attribute_count, job_id
    call,       \* the last operation performed on the object and what it did
    nops,       \* number of operations performed on the object so far
    run,        \* the state of a run of main(): see the main() section
    scriptobj   \* the SubmitScript or BatchScript object: see the scripts section

vars == <<job, call, nops, run, scriptobj>>

----------------------------------------------------------------------------
(* Python values.  None is the Python None; "" is the empty string; every  *)
(* other string is a non-empty (truthy) value.                             *)

None == "<None>"

\* Python truth value of a string-or-None: `if x:` / `not x`.
Truthy(v) == v # None /\ v # ""

\* Values assigned to the optional attributes: None, the empty string and
\* two distinct non-empty strings.
AssignValues == {None, "", "a", "b"}

\* The nine optional attributes, in the order submit() appends them.
OptionalAttrs ==
    <<"name", "walltime", "nodes", "stdout_path", "stderr_path",
      "dependency_list", "mail_options", "mem", "vmem">>

OptionalAttrSet == {OptionalAttrs[i] : i \in 1..Len(OptionalAttrs)}

\* os.getcwd() and socket.getfqdn() of the submitting process.
Getcwd == "/cwd"
Getfqdn == "login.cluster"

----------------------------------------------------------------------------
(* BatchJob: the setters.                                                  *)

\* The body shared by set_name, set_walltime, ... set_vmem (the nine
\* setters are the same text with the attribute name changed):
\*     if not self.X and X:        self.attribute_count += 1
\*     elif X is None and self.X:  self.attribute_count -= 1
\*     self._X = X
SetterMissesEmpty(j, a, v) ==
    \* faulty variant: the count is not touched when a set attribute is overwritten,
    \* and is incremented on every truthy assignment
    [j EXCEPT ![a] = v,
              !.attribute_count = IF Truthy(v) THEN @ + 1 ELSE @]

SetterDecrementsTwice(j, a, v) ==
    \* faulty variant: the elif tests only `X is None`
    [j EXCEPT ![a] = v,
              !.attribute_count =
                  IF ~Truthy(j[a]) /\ Truthy(v) THEN @ + 1
                  ELSE IF v = None THEN @ - 1
                  ELSE @]

Setter(j, a, v) ==
    [j EXCEPT ![a] = v,
              !.attribute_count =
                  IF ~Truthy(j[a]) /\ Truthy(v) THEN @ + 1
                  ELSE IF v = None /\ Truthy(j[a]) THEN @ - 1
                  ELSE @]

set_name(j, v)            == Setter(j, "name", v)
set_walltime(j, v)        == Setter(j, "walltime", v)
set_nodes(j, v)           == Setter(j, "nodes", v)
set_stderr_path(j, v)     == Setter(j, "stderr_path", v)
set_stdout_path(j, v)     == Setter(j, "stdout_path", v)
set_dependency_list(j, v) == Setter(j, "dependency_list", v)
set_mail_options(j, v)    == Setter(j, "mail_options", v)
set_mem(j, v)             == Setter(j, "mem", v)
set_vmem(j, v)            == Setter(j, "vmem", v)

\* Faulty variant: the argument is stored as given.
set_workdir_StoresEmpty(j, v) == [j EXCEPT !.workdir = v]

\* set_workdir: an empty or None argument resolves to os.getcwd().
set_workdir(j, v) ==
    [j EXCEPT !.workdir = IF ~Truthy(v) THEN Getcwd ELSE v]

\* The fields assigned at the top of __init__, before any setter runs.
BlankJob ==
    [name |-> None, walltime |-> None, nodes |-> None,
     stderr_path |-> None, stdout_path |-> None, workdir |-> None,
     dependency_list |-> None, mail_options |-> None,
     mem |-> None, vmem |-> None,
     attribute_count |-> 0, job_script |-> None, job_id |-> None]

\* Faulty variant: attribute_count is set to 0 after the assignment of
\* name instead of before it.
BatchJob_init_CountsAfterName(job_script, a) ==
    LET j0  == BlankJob
        j1  == [set_name(j0, a.name) EXCEPT !.attribute_count = 0]
        j2  == [j1 EXCEPT !.job_script = job_script]
        j3  == set_walltime(j2, a.walltime)
        j4  == set_nodes(j3, a.nodes)
        j5  == set_stdout_path(j4, a.stdout)
        j6  == set_stderr_path(j5, a.stderr)
        j7  == set_workdir(j6, a.workdir)
        j8  == [j7 EXCEPT !.job_id = None]
        j9  == set_mail_options(j8, a.mail_options)
        j10 == set_dependency_list(j9, a.dependency_list)
        j11 == set_mem(j10, a.mem)
    IN  set_vmem(j11, a.vmem)

\* BatchJob.__init__: the assignments in the order of the source.
BatchJob_init(job_script, a) ==
    LET j0  == BlankJob
        j1  == set_name(j0, a.name)
        j2  == [j1 EXCEPT !.job_script = job_script]
        j3  == set_walltime(j2, a.walltime)
        j4  == set_nodes(j3, a.nodes)
        j5  == set_stdout_path(j4, a.stdout)
        j6  == set_stderr_path(j5, a.stderr)
        j7  == set_workdir(j6, a.workdir)
        j8  == [j7 EXCEPT !.job_id = None]
        j9  == set_mail_options(j8, a.mail_options)
        j10 == set_dependency_list(j9, a.dependency_list)
        j11 == set_mem(j10, a.mem)
    IN  set_vmem(j11, a.vmem)

\* The keyword arguments of __init__ at their defaults.
DefaultArgs ==
    [name |-> None, walltime |-> None, nodes |-> None, stderr |-> None,
     stdout |-> None, workdir |-> None, mail_options |-> None,
     dependency_list |-> None, mem |-> None, vmem |-> None]

----------------------------------------------------------------------------
(* BatchJob.generate_env and BatchJob.submit.                              *)

\* os.environ[k] of a variable that is not in the environment raises
\* KeyError; Absent marks such a variable.
Absent == "<absent>"

EnvVars == {"PATH", "HOME", "LOGNAME"}

\* The value a variable has when it is set to a non-empty value.
EnvValue(k) ==
    IF k = "PATH" THEN "/bin" ELSE IF k = "HOME" THEN "/home/u" ELSE "u"

\* The environments submit() is called in: each of the three variables is
\* absent, present and empty, or present with a value.
Environs ==
    { [k \in EnvVars |-> IF f[k] = "set" THEN EnvValue(k) ELSE f[k]] :
      f \in [EnvVars -> {Absent, "", "set"}] }

\* generate_env: the environment string, or the KeyError raised by the
\* first os.environ[...] lookup of an absent variable.
generate_env(j, environ) ==
    LET e0 == "PBS_O_WORKDIR=" \o j.workdir
        e1 == e0 \o ",PBS_O_HOST=" \o Getfqdn
        e2 == IF Truthy(environ["PATH"])
              THEN e1 \o ",PBS_O_PATH=" \o environ["PATH"] ELSE e1
        e3 == IF Truthy(environ["HOME"])
              THEN e2 \o ",PBS_O_HOME=" \o environ["HOME"] ELSE e2
        e4 == IF Truthy(environ["LOGNAME"])
              THEN e3 \o ",PBS_O_LOGNAME=" \o environ["LOGNAME"] ELSE e3
    IN  IF environ["PATH"] = Absent
            THEN [raised |-> TRUE, value |-> "PATH"]
        ELSE IF environ["HOME"] = Absent
            THEN [raised |-> TRUE, value |-> "HOME"]
        ELSE IF environ["LOGNAME"] = Absent
            THEN [raised |-> TRUE, value |-> "LOGNAME"]
        ELSE [raised |-> FALSE, value |-> e4]

\* What the resource manager answers to one pbs_submit: the job id that
\* pbs_submit returns (None on failure) and the (code, text) pair that
\* pbs.error() reports afterwards.
Replies ==
    { [e |-> 0,     e_msg |-> "",                  id |-> "1.torque"],
      [e |-> 15007, e_msg |-> "Unauthorized Request", id |-> None] }

\* A slot of pbs.new_attropl(n) that submit() has not written.
BlankSlot == [name |-> None, resource |-> None, value |-> None]

\* One `if self.X: attropl[attropl_idx]... ; attropl_idx += 1` block: st is
\* <<the writes so far, attropl_idx>>.
AppendIfNoAdvance(st, cond, entry) ==
    \* faulty variant: the block forgets `attropl_idx += 1`
    IF cond
    THEN [writes |-> Append(st.writes, [idx |-> st.idx, entry |-> entry]),
          idx |-> st.idx]
    ELSE st

AppendIf(st, cond, entry) ==
    IF cond
    THEN [writes |-> Append(st.writes, [idx |-> st.idx, entry |-> entry]),
          idx |-> st.idx + 1]
    ELSE st

\* The writes submit() makes after the environment entry, in source order.
AttrWrites(j, env) ==
    LET s0 == [writes |-> <<[idx |-> 0,
                             entry |-> [name |-> "ATTR_v", resource |-> None,
                                        value |-> env]]>>,
               idx |-> 1]
        s1 == AppendIf(s0, Truthy(j.name),
                  [name |-> "ATTR_N", resource |-> None, value |-> j.name])
        s2 == AppendIf(s1, Truthy(j.walltime),
                  [name |-> "ATTR_l", resource |-> "walltime",
                   value |-> j.walltime])
        s3 == AppendIf(s2, Truthy(j.nodes),
                  [name |-> "ATTR_l", resource |-> "nodes",
                   value |-> j.nodes])
        s4 == AppendIf(s3, Truthy(j.stdout_path),
                  [name |-> "ATTR_o", resource |-> None,
                   value |-> j.stdout_path])
        s5 == AppendIf(s4, Truthy(j.stderr_path),
                  [name |-> "ATTR_o", resource |-> None,
                   value |-> j.stderr_path])
        s6 == AppendIf(s5, Truthy(j.dependency_list),
                  [name |-> "ATTR_depend", resource |-> None,
                   value |-> j.dependency_list])
        s7 == AppendIf(s6, Truthy(j.mail_options),
                  [name |-> "ATTR_m", resource |-> None,
                   value |-> j.mail_options])
        s8 == AppendIf(s7, Truthy(j.mem),
                  [name |-> "ATTR_l", resource |-> "mem", value |-> j.mem])
        s9 == AppendIf(s8, Truthy(j.vmem),
                  [name |-> "ATTR_l", resource |-> "vmem", value |-> j.vmem])
    IN  s9.writes

\* The array after the writes ws: slot i holds the last entry written at
\* index i.  (A write at an index >= capacity is outside the array; submit()
\* never makes one, see NeverIndexesPastCapacity.)
Attropl(capacity, ws) ==
    [i \in 0..(capacity - 1) |->
        LET at == {k \in 1..Len(ws) : ws[k].idx = i}
        IN  IF at = {} THEN BlankSlot
            ELSE ws[CHOOSE k \in at : \A m \in at : m <= k].entry]

\* The pbs calls of submit() after the list is built, and how it ends.
PbsCalls(reply) ==
    <<"pbs_connect", "pbs_submit", "pbs_disconnect", "pbs_error">>
    \o (IF reply.e # 0 THEN <<"raise">> ELSE <<"return">>)

\* How submit() ends once pbs.error() has been read.
SubmitOutcomeIgnoresError(reply) ==
    \* faulty variant: the `if e:` test is dropped
    [kind |-> "return", exc |-> None, value |-> reply.id]

SubmitOutcome(reply) ==
    IF reply.e # 0
    THEN [kind |-> "raise", exc |-> "Exception",
          value |-> ToString(reply.e) \o ": " \o reply.e_msg]
    ELSE [kind |-> "return", exc |-> None, value |-> reply.id]

\* Faulty variant: a descriptor that already has a job id is not submitted
\* again; the stored id is returned.
submit_SkipsResubmission(j, environ, reply) ==
    LET capacity == j.attribute_count + 1
        env      == generate_env(j, environ)
    IN  IF j.job_id # None
        THEN [job |-> j, capacity |-> capacity, writes |-> <<>>,
              attropl |-> Attropl(capacity, <<>>), sent |-> FALSE,
              calls |-> <<"return">>,
              outcome |-> [kind |-> "return", exc |-> None,
                           value |-> j.job_id]]
        ELSE IF env.raised
        THEN LET ws == <<[idx |-> 0,
                          entry |-> [BlankSlot EXCEPT !.name = "ATTR_v"]]>>
             IN  [job |-> j, capacity |-> capacity, writes |-> ws,
                  attropl |-> Attropl(capacity, ws), sent |-> FALSE,
                  calls |-> <<"raise">>,
                  outcome |-> [kind |-> "raise", exc |-> "KeyError",
                               value |-> env.value]]
        ELSE LET ws == AttrWrites(j, env.value)
             IN  [job |-> [j EXCEPT !.job_id = reply.id],
                  capacity |-> capacity, writes |-> ws,
                  attropl |-> Attropl(capacity, ws), sent |-> TRUE,
                  calls |-> PbsCalls(reply),
                  outcome |-> SubmitOutcome(reply)]

\* BatchJob.submit on object j, in environment environ, the manager
\* answering reply: the object afterwards, the list built and sent, the
\* sequence of pbs calls and the outcome.
submit(j, environ, reply) ==
    LET capacity == j.attribute_count + 1
        env      == generate_env(j, environ)
    IN  IF env.raised
        THEN \* line 277 has written slot 0's name; line 278 raises
             LET ws == <<[idx |-> 0,
                          entry |-> [BlankSlot EXCEPT !.name = "ATTR_v"]]>>
             IN  [job |-> j, capacity |-> capacity, writes |-> ws,
                  attropl |-> Attropl(capacity, ws), sent |-> FALSE,
                  calls |-> <<"raise">>,
                  outcome |-> [kind |-> "raise", exc |-> "KeyError",
                               value |-> env.value]]
        ELSE LET ws == AttrWrites(j, env.value)
             IN  [job |-> [j EXCEPT !.job_id = reply.id],
                  capacity |-> capacity, writes |-> ws,
                  attropl |-> Attropl(capacity, ws), sent |-> TRUE,
                  calls |-> PbsCalls(reply),
                  outcome |-> SubmitOutcome(reply)]

----------------------------------------------------------------------------
(* The BatchJob object under construction, assignment and submission.      *)

\* Bound on the number of operations performed on one object.
MaxOps == 2

\* The script path given to the constructor.
ScriptPath == "/tmp/tmpjob.sh"

\* The constructor arguments of the initial objects: the defaults, the
\* keyword arguments main() passes (name, walltime, nodes, mail_options,
\* mem, vmem), and all of them.
MainArgs ==
    [DefaultArgs EXCEPT !.name = "align_x", !.walltime = "4:00:00",
                        !.nodes = "1:ppn=8", !.mail_options = "ae",
                        !.mem = "14gb", !.vmem = "25gb"]

\* Every optional keyword argument given.
FullArgs ==
    [MainArgs EXCEPT !.stdout = "out.log", !.stderr = "err.log",
                     !.workdir = "/work", !.dependency_list = "afterok:1"]

CtorArgs == {DefaultArgs, MainArgs, FullArgs}

NoCall == [op |-> "init"]

\* The run of main() is not started.
NoRun == [pc |-> "idle"]

\* No SubmitScript or BatchScript object is held.
NoScript == [cls |-> "none"]

Init ==
    /\ \E a \in CtorArgs : job = BatchJob_init(ScriptPath, a)
    /\ call = NoCall
    /\ nops = 0
    /\ run = NoRun
    /\ scriptobj = NoScript

\* An assignment `job.<a> = v` through the property's setter.
Assign(a, v, after) ==
    /\ nops < MaxOps
    /\ job' = after
    /\ call' = [op |-> "set", attr |-> a, value |-> v, before |-> job]
    /\ nops' = nops + 1
    /\ UNCHANGED <<run, scriptobj>>

SetName == \E v \in AssignValues : Assign("name", v, set_name(job, v))

SetWalltime ==
    \E v \in AssignValues : Assign("walltime", v, set_walltime(job, v))

SetNodes == \E v \in AssignValues : Assign("nodes", v, set_nodes(job, v))

SetStderrPath ==
    \E v \in AssignValues : Assign("stderr_path", v, set_stderr_path(job, v))

SetStdoutPath ==
    \E v \in AssignValues : Assign("stdout_path", v, set_stdout_path(job, v))

SetDependencyList ==
    \E v \in AssignValues :
        Assign("dependency_list", v, set_dependency_list(job, v))

SetMailOptions ==
    \E v \in AssignValues :
        Assign("mail_options", v, set_mail_options(job, v))

SetMem == \E v \in AssignValues : Assign("mem", v, set_mem(job, v))

SetVmem == \E v \in AssignValues : Assign("vmem", v, set_vmem(job, v))

\* The values assigned to workdir: None, the empty string, a directory.
WorkdirValues == {None, "", "/scratch"}

\* An assignment `job.workdir = v`.
SetWorkdir ==
    /\ nops < MaxOps
    /\ \E v \in WorkdirValues :
          /\ job' = set_workdir(job, v)
          /\ call' = [op |-> "set_workdir", value |-> v, before |-> job]
    /\ nops' = nops + 1
    /\ UNCHANGED <<run, scriptobj>>

\* What a submit() record keeps of the operation before it: for a submit(),
\* its environment, whether the list was sent and the list.
Previous(c) ==
    IF c.op = "submit"
    THEN [op |-> "submit", environ |-> c.environ, sent |-> c.sent,
          attropl |-> c.attropl]
    ELSE [op |-> c.op]

\* A call of job.submit().
Submit ==
    /\ nops < MaxOps
    /\ \E environ \in Environs, reply \in Replies :
          LET r == submit(job, environ, reply)
          IN  /\ job' = r.job
              /\ call' = [op |-> "submit", before |-> job,
                          environ |-> environ, reply |-> reply,
                          capacity |-> r.capacity, writes |-> r.writes,
                          attropl |-> r.attropl, sent |-> r.sent,
                          calls |-> r.calls, outcome |-> r.outcome,
                          previous |-> Previous(call)]
    /\ nops' = nops + 1
    /\ UNCHANGED <<run, scriptobj>>

Next ==
    \/ SetName \/ SetWalltime \/ SetNodes \/ SetStderrPath \/ SetStdoutPath
    \/ SetDependencyList \/ SetMailOptions \/ SetMem \/ SetVmem
    \/ SetWorkdir
    \/ Submit

Spec == Init /\ [][Next]_vars

\* Construction with every combination of the optional arguments: each is
\* left at None, given as "" or given a value (workdir, which is not
\* counted, stays at its default).
ArgValues == {None, "", "v"}

AllCtorArgs ==
    {a \in [DOMAIN DefaultArgs -> ArgValues] : a.workdir = None}

\* An environment in which generate_env finds every variable.
FullEnviron == [k \in EnvVars |-> EnvValue(k)]

\* BatchJob(job_script, **a): the object right after __init__.
InitCtor ==
    /\ \E a \in AllCtorArgs :
          /\ job = BatchJob_init(ScriptPath, a)
          /\ call = [op |-> "new", args |-> a]
    /\ nops = 0
    /\ run = NoRun
    /\ scriptobj = NoScript

\* job.submit() on the object as constructed, as main() calls it.
SubmitConstructed ==
    /\ nops = 0
    /\ \E reply \in Replies :
          LET r == submit(job, FullEnviron, reply)
          IN  /\ job' = r.job
              /\ call' = [op |-> "submit", before |-> job,
                          environ |-> FullEnviron, reply |-> reply,
                          capacity |-> r.capacity, writes |-> r.writes,
                          attropl |-> r.attropl, sent |-> r.sent,
                          calls |-> r.calls, outcome |-> r.outcome,
                          previous |-> call]
    /\ nops' = 1
    /\ UNCHANGED <<run, scriptobj>>

NextCtor == SubmitConstructed

SpecCtor == InitCtor /\ [][NextCtor]_vars

----------------------------------------------------------------------------
(* Text.  A string the scripts take apart (a file name, a path, an option  *)
(* argument) is a sequence of one-character strings; Str turns it into the *)
(* string it spells.                                                       *)

RECURSIVE Str(_)
Str(cs) == IF cs = <<>> THEN "" ELSE Head(cs) \o Str(Tail(cs))

\* s.rfind(c), 1-based: the last position of c in s, 0 when there is none.
RFind(s, c) ==
    LET at == {k \in 1..Len(s) : s[k] = c}
    IN  IF at = {} THEN 0 ELSE CHOOSE k \in at : \A m \in at : m <= k

\* os.path.splitext: the extension starts at the last dot of the last path
\* component, unless only dots precede it there.
splitext(p) ==
    LET sepIndex == RFind(p, "/")
        dotIndex == RFind(p, ".")
    IN  IF /\ dotIndex > sepIndex
           /\ \E k \in (sepIndex + 1)..(dotIndex - 1) : p[k] # "."
        THEN <<SubSeq(p, 1, dotIndex - 1), SubSeq(p, dotIndex, Len(p))>>
        ELSE <<p, <<>>>>

\* os.path.basename
basename(p) == SubSeq(p, RFind(p, "/") + 1, Len(p))

\* os.path.join of a directory and an entry name
join(a, b) ==
    IF b # <<>> /\ b[1] = "/" THEN b
    ELSE IF a = <<>> \/ a[Len(a)] = "/" THEN a \o b
    ELSE a \o <<"/">> \o b

LowerCase == <<"a","b","c","d","e","f","g","h","i","j","k","l","m",
               "n","o","p","q","r","s","t","u","v","w","x","y","z">>
UpperCase == <<"A","B","C","D","E","F","G","H","I","J","K","L","M",
               "N","O","P","Q","R","S","T","U","V","W","X","Y","Z">>

\* str.upper
upper(s) ==
    [k \in 1..Len(s) |->
        IF \E n \in 1..Len(LowerCase) : LowerCase[n] = s[k]
        THEN UpperCase[CHOOSE n \in 1..Len(LowerCase) : LowerCase[n] = s[k]]
        ELSE s[k]]

\* str.split(sep) for a one-character separator
RECURSIVE split(_, _)
split(s, sep) ==
    LET at == {k \in 1..Len(s) : s[k] = sep}
    IN  IF at = {} THEN <<s>>
        ELSE LET k == CHOOSE x \in at : \A m \in at : x <= m
             IN  <<SubSeq(s, 1, k - 1)>> \o split(SubSeq(s, k + 1, Len(s)), sep)

Digits == <<"0","1","2","3","4","5","6","7","8","9">>

\* int(arg) of a decimal string: the number, or ValueError.
RECURSIVE DigitsValue(_)
DigitsValue(s) ==
    IF s = <<>> THEN 0
    ELSE 10 * DigitsValue(SubSeq(s, 1, Len(s) - 1))
         + (CHOOSE d \in 0..9 : Digits[d + 1] = s[Len(s)])

PyInt(s) ==
    IF s # <<>> /\ \A k \in 1..Len(s) : \E d \in 1..10 : Digits[d] = s[k]
    THEN [raised |-> FALSE, value |-> DigitsValue(s)]
    ELSE [raised |-> TRUE, value |-> 0]

----------------------------------------------------------------------------
(* SubmitScript (batch_registration.py) and BatchScript                    *)
(* (multi_registration.py): the script templates and their tokens.         *)

FIJI_HOME == "/opt/compsci/Fiji/Fiji.app"
MACRO_single == "/opt/compsci/Fiji/macros/kidneyalign.ijm"
MACRO_multi == "/opt/compsci/Fiji/macros/multi_channel.ijm"

Lit(t) == [kind |-> "lit", text |-> t]
Var(n) == [kind |-> "var", text |-> n]
\* `$$`, which string.Template renders as one `$`
Esc == [kind |-> "esc", text |-> "$"]
\* literal text that is an identifier and follows a `$$`
Word(t) == [kind |-> "word", text |-> t]

\* SubmitScript.script_template, cut at its placeholders.
SubmitScript_template ==
    << Lit("#!/bin/bash\n\nmodule load Python\nmodule load java\n\ncd "),
       Esc, Word("PBS_O_WORKDIR"), Lit("\n\n"),
       Var("FIJI_HOME_DIR"), Lit("/ImageJ-linux64  "), Var("HEAP"),
       Lit(" -batch "), Var("ALIGN_MACRO"), Lit(" \""),
       Var("STACK_IN"), Lit(":"), Var("STACK_OUT"), Lit("\"\n\n") >>

\* BatchScript.script_template, cut at its placeholders.
BatchScript_template ==
    << Lit("#!/bin/bash\n\nmodule load java\n\ncd "),
       Esc, Word("PBS_O_WORKDIR"),
       Lit("\n\n#start Xvfb ...\n\nexport DISPLAY=:"),
       Var("DNUM"), Lit(" \nXvfb "), Esc, Word("DISPLAY"),
       Lit(" -auth /dev/null > /dev/null 2>&1 &\n\n"),
       Var("FIJI_HOME_DIR"), Lit("/ImageJ-linux64  "), Var("HEAP"),
       Lit(" -batch "), Var("ALIGN_MACRO"), Lit(" \""),
       Var("BACKGROUND_IN"), Lit(":"), Var("BACKGROUND_OUT"), Lit(":"),
       Var("GLOMERULI_IN"), Lit(":"), Var("GLOMERULI_OUT"), Lit(":"),
       Var("TRANS_OUT"), Lit(":"), Var("TRANS_TYPE"), Lit("\"\n\n") >>

\* Faulty variant: os.path.basename is not applied to the file name.
SubmitScript_init_KeepsDirectory(input, output, heap) ==
    LET se == splitext(input)
    IN  [STACK_IN |-> Str(input),
         STACK_OUT |->
             IF Truthy(output) THEN output
             ELSE Str(se[1]) \o "-aligned" \o Str(se[2]),
         FIJI_HOME_DIR |-> FIJI_HOME,
         ALIGN_MACRO |-> MACRO_single,
         HEAP |-> IF Truthy(heap) THEN "--heap " \o heap ELSE ""]

\* SubmitScript.__init__: the tokens.  input is a path; output and heap are
\* strings or None.
SubmitScript_init(input, output, heap) ==
    LET se == splitext(input)
    IN  [STACK_IN |-> Str(input),
         STACK_OUT |->
             IF Truthy(output) THEN output
             ELSE Str(basename(se[1])) \o "-aligned" \o Str(se[2]),
         FIJI_HOME_DIR |-> FIJI_HOME,
         ALIGN_MACRO |-> MACRO_single,
         HEAP |-> IF Truthy(heap) THEN "--heap " \o heap ELSE ""]

\* Faulty variant: GLOMERULI_OUT is chosen by the test `if glomeruli_out:`.
BatchScript_init_TestsGlomeruliOut(a) ==
    LET b == splitext(a.background_in)
        g == splitext(a.glomeruli_in)
    IN  [BACKGROUND_IN |-> Str(a.background_in),
         GLOMERULI_IN |-> Str(a.glomeruli_in),
         DNUM |-> ToString(a.display),
         BACKGROUND_OUT |->
             IF Truthy(a.background_out) THEN a.background_out
             ELSE Str(basename(b[1])) \o "_aligned" \o Str(b[2]),
         GLOMERULI_OUT |->
             IF Truthy(a.glomeruli_out) THEN a.glomeruli_out
             ELSE Str(basename(g[1])) \o "_aligned" \o Str(g[2]),
         TRANS_OUT |->
             IF Truthy(a.transformations_out) THEN a.transformations_out
             ELSE "transformations.txt",
         TRANS_TYPE |-> a.transformation_type,
         FIJI_HOME_DIR |-> FIJI_HOME,
         ALIGN_MACRO |-> MACRO_multi,
         HEAP |-> IF Truthy(a.heap) THEN "--heap " \o a.heap ELSE ""]

\* BatchScript.__init__: the tokens, from the record a of its arguments.  The
\* inputs are paths; the outputs, the transformation type and the heap are
\* strings or None; display is a number, kept as the text the template
\* prints for it.
BatchScript_init(a) ==
    LET b == splitext(a.background_in)
        g == splitext(a.glomeruli_in)
    IN  [BACKGROUND_IN |-> Str(a.background_in),
         GLOMERULI_IN |-> Str(a.glomeruli_in),
         DNUM |-> ToString(a.display),
         BACKGROUND_OUT |->
             IF Truthy(a.background_out) THEN a.background_out
             ELSE Str(basename(b[1])) \o "_aligned" \o Str(b[2]),
         GLOMERULI_OUT |->
             IF Truthy(a.background_out) THEN a.glomeruli_out
             ELSE Str(basename(g[1])) \o "_aligned" \o Str(g[2]),
         TRANS_OUT |->
             IF Truthy(a.transformations_out) THEN a.transformations_out
             ELSE "transformations.txt",
         TRANS_TYPE |-> a.transformation_type,
         FIJI_HOME_DIR |-> FIJI_HOME,
         ALIGN_MACRO |-> MACRO_multi,
         HEAP |-> IF Truthy(a.heap) THEN "--heap " \o a.heap ELSE ""]

\* The text a script is made of, as the pieces a scan for `$name` markers
\* tells apart: a `$`, an identifier, any other text.
Text(t) == [kind |-> "text", text |-> t]
Dollar == [kind |-> "dollar", text |-> "$"]
Ident(t) == [kind |-> "ident", text |-> t]

\* The string a sequence of pieces spells.
RECURSIVE Concat(_)
Concat(ps) == IF ps = <<>> THEN "" ELSE Head(ps).text \o Concat(Tail(ps))

\* Faulty variant of the substitution: safe_substitute, which leaves a
\* placeholder without token in the output.
RECURSIVE SafePieces(_, _)
SafePieces(template, tokens) ==
    IF template = <<>> THEN <<>>
    ELSE LET seg == Head(template)
         IN  (IF seg.kind = "var"
              THEN IF seg.text \in DOMAIN tokens
                   THEN <<Text(tokens[seg.text])>>
                   ELSE <<Dollar, Ident(seg.text)>>
              ELSE IF seg.kind = "esc" THEN <<Dollar>>
              ELSE IF seg.kind = "word" THEN <<Ident(seg.text)>>
              ELSE <<Text(seg.text)>>)
             \o SafePieces(Tail(template), tokens)

\* string.Template(template).substitute(tokens) for a template whose
\* placeholders all have a token: the pieces of the result.  A token value
\* is put in by '%s', so None is put in as the text None.
RECURSIVE Pieces(_, _)
Pieces(template, tokens) ==
    IF template = <<>> THEN <<>>
    ELSE LET seg == Head(template)
         IN  <<(IF seg.kind = "var"
                THEN Text(IF tokens[seg.text] = None THEN "None"
                          ELSE tokens[seg.text])
                ELSE IF seg.kind = "esc" THEN Dollar
                ELSE IF seg.kind = "word" THEN Ident(seg.text)
                ELSE Text(seg.text))>>
             \o Pieces(Tail(template), tokens)

Substitute(template, tokens) == Concat(Pieces(template, tokens))

\* The placeholders of template that have no token.
Unbound(template, tokens) ==
    {n \in 1..Len(template) :
        /\ template[n].kind = "var"
        /\ template[n].text \notin DOMAIN tokens}

\* What generate_script gives when it raises exc for the keys.
Raised(exc, keys) ==
    [raised |-> TRUE, exc |-> exc, keys |-> keys, pieces |-> <<>>,
     value |-> ""]

\* Faulty variant: the loop over the tokens is missing.
generate_script_SkipsUnsetCheck(template, tokens) ==
    LET unbound == Unbound(template, tokens)
    IN  IF unbound # {}
        THEN Raised("KeyError",
                 {template[CHOOSE n \in unbound :
                               \A m \in unbound : n <= m].text})
        ELSE [raised |-> FALSE, exc |-> None, keys |-> {},
              pieces |-> Pieces(template, tokens),
              value |-> Substitute(template, tokens)]

\* Faulty variant: safe_substitute in place of substitute.
generate_script_SafeSubstitute(template, tokens) ==
    LET unset == {k \in DOMAIN tokens : tokens[k] = None}
    IN  IF unset # {} THEN Raised("Exception", unset)
        ELSE [raised |-> FALSE, exc |-> None, keys |-> {},
              pieces |-> SafePieces(template, tokens),
              value |-> Concat(SafePieces(template, tokens))]

\* Faulty variant: the loop tests `not val` in place of `val is None`.
generate_script_RejectsEmpty(template, tokens) ==
    LET unset   == {k \in DOMAIN tokens : ~Truthy(tokens[k])}
        unbound == Unbound(template, tokens)
    IN  IF unset # {} THEN Raised("Exception", unset)
        ELSE IF unbound # {}
        THEN Raised("KeyError",
                 {template[CHOOSE n \in unbound :
                               \A m \in unbound : n <= m].text})
        ELSE [raised |-> FALSE, exc |-> None, keys |-> {},
              pieces |-> Pieces(template, tokens),
              value |-> Substitute(template, tokens)]

\* generate_script: the exception for a token that is None (the loop over
\* the dict raises for the first such key it meets, one of keys), the
\* KeyError of substitute() for the first placeholder without token, or the
\* rendered script.
generate_script(template, tokens) ==
    LET unset   == {k \in DOMAIN tokens : tokens[k] = None}
        unbound == Unbound(template, tokens)
    IN  IF unset # {} THEN Raised("Exception", unset)
        ELSE IF unbound # {}
        THEN Raised("KeyError",
                 {template[CHOOSE n \in unbound :
                               \A m \in unbound : n <= m].text})
        ELSE [raised |-> FALSE, exc |-> None, keys |-> {},
              pieces |-> Pieces(template, tokens),
              value |-> Substitute(template, tokens)]

----------------------------------------------------------------------------
(* A SubmitScript or BatchScript object and its generate_script().         *)
(* scriptobj holds the class, the template, the constructor arguments and  *)
(* _tokens of the object.                                                  *)
(* _tokens is a plain dict attribute and script_template a plain class     *)
(* attribute: besides the objects the constructors build, the objects      *)
(* whose dict has lost one entry are drawn, the only objects whose         *)
(* template has a placeholder without token.                               *)

\* The arguments SubmitScript is constructed with.
SubmitScriptArgs ==
    [input : {<<"d", "/", "a", ".", "t", "i", "f">>, <<"d", ".", "v", "/", "r", "a", "w">>, <<"s", "a", "m", "p", "l", "e", ".", "t", "i", "f", "f">>},
     output : {None, "", "out.tif"},
     heap : {None, "", "13332"}]

\* The arguments BatchScript is constructed with.
BatchScriptArgs ==
    [background_in : {<<"K", "1", "_", "B", ".", "t", "i", "f">>},
     glomeruli_in : {<<"K", "1", "_", "G", ".", "t", "i", "f">>},
     background_out : {None, "", "bo.tif"},
     glomeruli_out : {None, "go.tif"},
     transformations_out : {None, "K1_transformations.txt"},
     transformation_type : {None, "", "Rigid Body"},
     heap : {None, "13332"},
     display : {1, 1000}]

\* The objects the constructors build.
BuiltScripts ==
    { [cls |-> "SubmitScript", template |-> SubmitScript_template,
       args |-> a,
       tokens |-> SubmitScript_init(a.input, a.output, a.heap)] :
      a \in SubmitScriptArgs }
    \cup
    { [cls |-> "BatchScript", template |-> BatchScript_template,
       args |-> a,
       tokens |-> BatchScript_init(a)] : a \in BatchScriptArgs }

\* `del tokens[k]`
Without(tokens, k) == [x \in DOMAIN tokens \ {k} |-> tokens[x]]

ScriptObjects ==
    BuiltScripts \cup
    UNION { {[o EXCEPT !.tokens = Without(o.tokens, k)] :
                k \in DOMAIN o.tokens} : o \in BuiltScripts }

InitScript ==
    /\ job = BlankJob
    /\ call = NoCall
    /\ nops = 0
    /\ run = NoRun
    /\ scriptobj \in ScriptObjects

\* A call of scriptobj.generate_script().
GenerateScript ==
    /\ nops = 0
    /\ call' = [op |-> "generate_script",
                result |-> generate_script(scriptobj.template,
                                           scriptobj.tokens)]
    /\ nops' = nops + 1
    /\ UNCHANGED <<job, run, scriptobj>>

NextScript == GenerateScript

SpecScript == InitScript /\ [][NextScript]_vars

----------------------------------------------------------------------------
(* main() of batch_registration.py (prog = "batch") and of                 *)
(* multi_registration.py (prog = "multi").  run is the state of one run:   *)
(*   pc       "start", "loop" (batch: the loop over the directory),        *)
(*            "scan" (multi: the loop that fills pairs), "pairs" (multi:   *)
(*            the loop over pairs), "done" (main returned) or "crashed"    *)
(*            (an exception left main);                                    *)
(*   cmd      the command line as getopt.gnu_getopt parses it;             *)
(*   environ  os.environ;  listing  the result of os.listdir;              *)
(*   tmpfiles the files made by mkstemp that exist;                        *)
(*   jobs     the submit() calls made, in order;  out  what was printed;   *)
(*   ret      the value main returned;  exc  the exception that left it;   *)
(*   exit     the exit status of the process.                              *)

DEFAULT_WALLTIME == "4:00:00"
DEFAULT_MEM == 14
DEFAULT_VMEM == 25
DEFAULT_TRANSFORMATION == "Rigid Body"
VALID_TRANSFORMATIONS ==
    {"Rigid Body", "Translation", "Scaled Rotation", "Affine"}

\* The value display_number starts from.
FirstDisplay == 1000

\* Bound on the number of entries of the directory.
MaxFiles == 4

\* Faulty variant: the product is rounded up.
HeapRoundedUp(mem) == (mem * 1024 * 93 + 99) \div 100

\* int(mem * 1024 * .93): the product is below 2^53 and its fractional part
\* is a multiple of 1/25, so the float truncates to the exact floor.
Heap(mem) == (mem * 1024 * 93) \div 100

\* The directory argument.
StackDir == <<"d">>

\* The entries a directory may hold.
DirEntries(prog) ==
    IF prog = "batch"
    THEN { <<"a",".","t","i","f">>, <<"b",".","T","I","F","F">>, <<"n","o","t","e","s",".","t","x","t">>, <<".","t","i","f">> }
    ELSE { <<"K","1","_","B",".","t","i","f">>, <<"K","1","_","G",".","t","i","f">>, <<"K","2","_","B",".","t","i","f","f">>, <<"K","2","_","G",".","t","i","f">>, <<"K","1","_","B","_","x",".","t","i","f">>, <<"K","2","_","R",".","t","i","f">>, <<"K","3",".","t","i","f">> }

\* The sequences without repetition of at most n elements of S.
RECURSIVE Arrangements(_, _)
Arrangements(S, n) ==
    IF n = 0 THEN {<<>>}
    ELSE {<<>>} \cup
         UNION { {<<x>> \o p : p \in Arrangements(S \ {x}, n - 1)} : x \in S }

\* What os.listdir may return.
Listings(prog) == Arrangements(DirEntries(prog), MaxFiles)

\* The environments of a run: PATH and HOME set, LOGNAME set, empty or
\* absent.
MainEnvirons ==
    {e \in Environs : \A k \in EnvVars \ {"LOGNAME"} : e[k] = EnvValue(k)}

Opt(o, arg) == [opt |-> o, arg |-> arg]

CommandLine(err, opts, rem) ==
    [getopt_error |-> err, options |-> opts, remainder |-> rem]

\* The command lines of the runs, as (options, remainder) of gnu_getopt, or
\* its GetoptError.
Cmds(prog) ==
    { CommandLine(TRUE, <<>>, <<>>),
      CommandLine(FALSE, <<>>, <<StackDir>>),
      CommandLine(FALSE, <<>>, <<>>),
      CommandLine(FALSE, <<Opt("-w", <<"1",":","0","0",":","0","0">>), Opt("--mem", <<"2","0">>),
                           Opt("-v", <<"3","0">>)>>, <<StackDir>>),
      CommandLine(FALSE, <<Opt("-m", <<"x">>)>>, <<StackDir>>),
      CommandLine(FALSE, <<Opt("--help", <<>>)>>, <<StackDir>>),
      CommandLine(FALSE, <<Opt("-h", <<>>)>>, <<StackDir>>) }
    \cup (IF prog = "multi"
          THEN { CommandLine(FALSE, <<Opt("-t", <<"A","f","f","i","n","e">>)>>, <<StackDir>>),
                 CommandLine(FALSE, <<Opt("--transformation", <<"B","o","g","u","s">>)>>,
                             <<StackDir>>) }
          ELSE {})

\* pairs = {} and the stacks of an id no file was stored for.
EmptyPairs == [x \in {} |-> 0]
NoFile == <<>>
NoStacks == [B |-> NoFile, G |-> NoFile]

\* len(stacks)
LenStacks(st) == Cardinality({c \in {"B", "G"} : st[c] # NoFile})

InitialRun(prog, cmd, environ) ==
    [prog |-> prog, pc |-> "start", cmd |-> cmd, environ |-> environ,
     walltime |-> None, mem |-> None, vmem |-> None, trans |-> None,
     heap |-> None, stack_dir |-> <<>>, listing |-> <<>>, i |-> 1,
     pairs |-> EmptyPairs, scanned |-> FALSE, todo |-> {},
     display_number |-> 0, tmpfiles |-> {}, ntmp |-> 0, jobs |-> <<>>,
     out |-> <<>>, ret |-> None, exc |-> None, exit |-> None]

\* The loop over the parsed options: st holds walltime, mem, vmem, trans,
\* whether usage() was printed and main returned 0 (help), and the
\* exception of int(arg).
RECURSIVE ParseOptions(_, _, _)
ParseOptions(prog, opts, st) ==
    IF opts = <<>> THEN st
    ELSE
      LET opt == Head(opts).opt
          arg == Head(opts).arg
          n   == PyInt(arg)
          s1  == IF opt \in {"-w", "--walltime"}
                 THEN [st EXCEPT !.walltime = Str(arg)] ELSE st
          s2  == IF opt \in {"-m", "--mem"}
                 THEN [s1 EXCEPT !.mem = n.value] ELSE s1
          s3  == IF opt \in {"-v", "--vmem"}
                 THEN [s2 EXCEPT !.vmem = n.value] ELSE s2
          s4  == IF prog = "multi" /\ opt \in {"-t", "--transformation"}
                 THEN [s3 EXCEPT !.trans = Str(arg)] ELSE s3
      IN  IF opt \in {"h", "--help"} THEN [st EXCEPT !.help = TRUE]
          ELSE IF opt \in {"-m", "--mem", "-v", "--vmem"} /\ n.raised
               THEN [s1 EXCEPT !.exc = "ValueError"]
          ELSE ParseOptions(prog, Tail(opts), s4)

\* The exit status of the process.  The script ends with a bare `main()`:
\* the value main returns is dropped and the interpreter exits with 0; an
\* exception that leaves main ends it with a traceback and 1.
ExitAfterReturn(code) == "0"
ExitAfterException == "1"

\* main returns code after printing the lines printed.
Return(r, code, printed) ==
    [r EXCEPT !.pc = "done", !.ret = code, !.out = @ \o printed,
              !.exit = ExitAfterReturn(code)]

\* An exception leaves main.
Crash(r, exc) ==
    [r EXCEPT !.pc = "crashed", !.exc = exc, !.exit = ExitAfterException]

\* main, from its first line to the call of os.listdir.
MainStart ==
    /\ run.pc = "start"
    /\ LET c  == run.cmd
           st == ParseOptions(run.prog, c.options,
                     [walltime |-> DEFAULT_WALLTIME, mem |-> DEFAULT_MEM,
                      vmem |-> DEFAULT_VMEM,
                      trans |-> DEFAULT_TRANSFORMATION,
                      help |-> FALSE, exc |-> None])
       IN  IF c.getopt_error
               THEN run' = Return(run, "2", <<"getopt error", "usage">>)
           ELSE IF st.exc # None
               THEN run' = Crash(run, st.exc)
           ELSE IF st.help
               THEN run' = Return(run, "0", <<"usage">>)
           ELSE IF Len(c.remainder) # 1
               THEN run' = Return(run, "1",
                        <<"Error: missing required argument!", "usage">>)
           ELSE IF run.prog = "multi" /\ st.trans \notin VALID_TRANSFORMATIONS
               THEN run' = Return(run, "1",
                        <<"Error: not a valid transformation.", "usage">>)
           ELSE \E listing \in Listings(run.prog) :
                   run' = [run EXCEPT
                       !.walltime = st.walltime,
                       !.heap = ToString(Heap(st.mem)),
                       !.mem = ToString(st.mem) \o "gb",
                       !.vmem = ToString(st.vmem) \o "gb",
                       !.trans = st.trans,
                       !.stack_dir = c.remainder[1],
                       !.listing = listing,
                       !.out = Append(@,
                                  (IF run.prog = "batch" THEN "setting heap to "
                                   ELSE "setting Fiji Java max heap to ")
                                  \o ToString(Heap(st.mem))),
                       !.pc = IF run.prog = "batch" THEN "loop" ELSE "scan"]
    /\ UNCHANGED <<job, call, nops, scriptobj>>

\* Faulty variant: the extension is compared as it is written.
IsTiffCaseSensitive(extension) ==
    \/ extension = <<".", "t", "i", "f", "f">>
    \/ extension = <<".", "t", "i", "f">>

\* extension.upper() == ".TIFF" or extension.upper() == ".TIF"
IsTiff(extension) ==
    \/ upper(extension) = <<".", "T", "I", "F", "F">>
    \/ upper(extension) = <<".", "T", "I", "F">>

\* The body both loops run for one job: mkstemp, generate_script written to
\* the file, the BatchJob built and submitted, the id printed, the file
\* removed.  r is the run, key the file or id the job is for, display the
\* display number used (0 in batch).  Gives the run, the BatchJob and the
\* record of its submit() afterwards; an exception of generate_script or of
\* submit() leaves main.
JobStep(r, template, tokens, name, key, display, reply) ==
    LET tmp_filename == "/tmp/tmp" \o ToString(r.ntmp) \o ".sh"
        made   == [r EXCEPT !.tmpfiles = @ \cup {tmp_filename},
                            !.ntmp = @ + 1]
        script == generate_script(template, tokens)
        batch_job ==
            BatchJob_init(tmp_filename,
                [DefaultArgs EXCEPT !.walltime = r.walltime, !.name = name,
                                    !.nodes = "1:ppn=8",
                                    !.mail_options = "ae",
                                    !.mem = r.mem, !.vmem = r.vmem])
        s == submit(batch_job, r.environ, reply)
        attempt == [key |-> key, script |-> tmp_filename,
                    tokens |-> tokens, rendered |-> script.value,
                    display |-> display, job |-> batch_job,
                    outcome |-> s.outcome]
        tried == [made EXCEPT !.jobs = Append(@, attempt)]
        c == [op |-> "submit", before |-> batch_job, environ |-> r.environ,
              reply |-> reply, capacity |-> s.capacity, writes |-> s.writes,
              attropl |-> s.attropl, sent |-> s.sent, calls |-> s.calls,
              outcome |-> s.outcome, previous |-> NoCall]
    IN  IF script.raised
        THEN [run |-> Crash(made, script.exc), job |-> job, call |-> call]
        ELSE IF s.outcome.kind = "raise"
        THEN [run |-> Crash(tried, s.outcome.exc), job |-> s.job, call |-> c]
        ELSE [run |-> [tried EXCEPT
                          !.out = Append(@, "Submitted with batch id "
                                            \o s.outcome.value),
                          !.tmpfiles = @ \ {tmp_filename}],
              job |-> s.job, call |-> c]

\* batch: one iteration of `for file in os.listdir(stack_dir)`.
BatchLoop ==
    /\ run.prog = "batch"
    /\ run.pc = "loop"
    /\ run.i <= Len(run.listing)
    /\ LET file       == run.listing[run.i]
           extension  == splitext(file)[2]
           input_file == join(run.stack_dir, file)
           r0 == [run EXCEPT !.i = @ + 1]
       IN  IF IsTiff(extension)
           THEN \E reply \in Replies :
                  LET r1 == [r0 EXCEPT !.out = Append(@,
                                "Creating job to process " \o Str(input_file))]
                      js == JobStep(r1, SubmitScript_template,
                                SubmitScript_init(input_file, None, run.heap),
                                "align_" \o Str(file), Str(file), 0, reply)
                  IN  /\ run' = js.run
                      /\ job' = js.job
                      /\ call' = js.call
           ELSE /\ run' = r0
                /\ UNCHANGED <<job, call>>
    /\ UNCHANGED <<nops, scriptobj>>

\* Faulty variant of the loop that fills pairs: the job of an id is
\* submitted as soon as its second stack is stored, before the remaining
\* entries are looked at.
MultiScanSubmitsEagerly ==
    /\ run.prog = "multi"
    /\ run.pc = "scan"
    /\ run.i <= Len(run.listing)
    /\ LET file      == run.listing[run.i]
           filename  == splitext(file)[1]
           extension == splitext(file)[2]
           parts     == split(filename, "_")
           id        == Str(parts[1])
           channel   == Str(parts[2])
           old       == IF id \in DOMAIN run.pairs THEN run.pairs[id]
                        ELSE NoStacks
           new       == IF channel = "B" THEN [old EXCEPT !.B = file]
                        ELSE [old EXCEPT !.G = file]
           r0        == [run EXCEPT !.i = @ + 1]
           r1        == [r0 EXCEPT !.pairs =
                           [x \in DOMAIN run.pairs \cup {id} |->
                               IF x = id THEN new ELSE run.pairs[x]]]
       IN  IF ~IsTiff(extension)
               THEN run' = r0 /\ UNCHANGED <<job, call>>
           ELSE IF Len(parts) < 2
               THEN run' = Crash(run, "IndexError") /\ UNCHANGED <<job, call>>
           ELSE IF channel \notin {"B", "G"} \/ ~(LenStacks(old) < 2)
               THEN run' = Crash(run, "AssertionError")
                    /\ UNCHANGED <<job, call>>
           ELSE IF LenStacks(new) < 2
               THEN run' = r1 /\ UNCHANGED <<job, call>>
           ELSE \E reply \in Replies :
                  LET js == JobStep(r1, BatchScript_template,
                                BatchScript_init(
                                    [background_in |-> new.B,
                                     glomeruli_in |-> new.G,
                                     background_out |-> None,
                                     glomeruli_out |-> None,
                                     transformations_out |->
                                         id \o "_transformations.txt",
                                     transformation_type |-> run.trans,
                                     heap |-> run.heap,
                                     display |-> FirstDisplay]),
                                "align_" \o id, id, FirstDisplay, reply)
                  IN  /\ run' = js.run
                      /\ job' = js.job
                      /\ call' = js.call
    /\ UNCHANGED <<nops, scriptobj>>

\* multi: one iteration of the loop that fills pairs.
MultiScan ==
    /\ run.prog = "multi"
    /\ run.pc = "scan"
    /\ run.i <= Len(run.listing)
    /\ LET file      == run.listing[run.i]
           filename  == splitext(file)[1]
           extension == splitext(file)[2]
           parts     == split(filename, "_")
           id        == Str(parts[1])
           channel   == Str(parts[2])
           old       == IF id \in DOMAIN run.pairs THEN run.pairs[id]
                        ELSE NoStacks
           new       == IF channel = "B" THEN [old EXCEPT !.B = file]
                        ELSE [old EXCEPT !.G = file]
           r0        == [run EXCEPT !.i = @ + 1]
       IN  IF ~IsTiff(extension) THEN run' = r0
           ELSE IF Len(parts) < 2 THEN run' = Crash(run, "IndexError")
           ELSE IF channel \notin {"B", "G"}
               THEN run' = Crash(run, "AssertionError")
           ELSE IF ~(LenStacks(old) < 2)
               THEN run' = Crash(
                        [run EXCEPT !.pairs =
                            [x \in DOMAIN run.pairs \cup {id} |->
                                IF x = id THEN old ELSE run.pairs[x]]],
                        "AssertionError")
           ELSE run' = [r0 EXCEPT !.pairs =
                           [x \in DOMAIN run.pairs \cup {id} |->
                               IF x = id THEN new ELSE run.pairs[x]]]
    /\ UNCHANGED <<job, call, nops, scriptobj>>

\* multi: the first loop is over; display_number = 1000 and the loop over
\* pairs starts.
MultiScanEnd ==
    /\ run.prog = "multi"
    /\ run.pc = "scan"
    /\ run.i > Len(run.listing)
    /\ run' = [run EXCEPT !.pc = "pairs", !.scanned = TRUE,
                          !.display_number = FirstDisplay,
                          !.todo = DOMAIN run.pairs]
    /\ UNCHANGED <<job, call, nops, scriptobj>>

\* Faulty variant of the loop over pairs: display_number is incremented for
\* a skipped group too.
MultiPairSkipTakesDisplay ==
    /\ run.prog = "multi"
    /\ run.pc = "pairs"
    /\ \E id \in run.todo :
         LET stacks == run.pairs[id]
             r0 == [run EXCEPT !.todo = @ \ {id},
                               !.display_number = @ + 1]
         IN  IF LenStacks(stacks) = 1
             THEN /\ run' = [r0 EXCEPT !.out = Append(@,
                                "Unable to match "
                                \o Str(IF stacks.B # NoFile THEN stacks.B
                                       ELSE stacks.G)
                                \o " with another stack.  Skipping...")]
                  /\ UNCHANGED <<job, call>>
             ELSE \E reply \in Replies :
                    LET r1 == [r0 EXCEPT
                                  !.out = Append(@, "Creating job to process "
                                      \o Str(stacks.B) \o "," \o Str(stacks.G))]
                        js == JobStep(r1, BatchScript_template,
                                  BatchScript_init(
                                      [background_in |-> stacks.B,
                                       glomeruli_in |-> stacks.G,
                                       background_out |-> None,
                                       glomeruli_out |-> None,
                                       transformations_out |->
                                           id \o "_transformations.txt",
                                       transformation_type |-> run.trans,
                                       heap |-> run.heap,
                                       display |-> run.display_number]),
                                  "align_" \o id, id, run.display_number,
                                  reply)
                    IN  /\ run' = js.run
                        /\ job' = js.job
                        /\ call' = js.call
    /\ UNCHANGED <<nops, scriptobj>>

\* multi: one iteration of `for id,stacks in pairs.iteritems()`; a dict
\* gives its items in an order of its own.
MultiPair ==
    /\ run.prog = "multi"
    /\ run.pc = "pairs"
    /\ \E id \in run.todo :
         LET stacks == run.pairs[id]
             r0 == [run EXCEPT !.todo = @ \ {id}]
         IN  IF LenStacks(stacks) = 1
             THEN /\ run' = [r0 EXCEPT !.out = Append(@,
                                "Unable to match "
                                \o Str(IF stacks.B # NoFile THEN stacks.B
                                       ELSE stacks.G)
                                \o " with another stack.  Skipping...")]
                  /\ UNCHANGED <<job, call>>
             ELSE \E reply \in Replies :
                    LET r1 == [r0 EXCEPT
                                  !.out = Append(@, "Creating job to process "
                                      \o Str(stacks.B) \o "," \o Str(stacks.G)),
                                  !.display_number = @ + 1]
                        js == JobStep(r1, BatchScript_template,
                                  BatchScript_init(
                                      [background_in |-> stacks.B,
                                       glomeruli_in |-> stacks.G,
                                       background_out |-> None,
                                       glomeruli_out |-> None,
                                       transformations_out |->
                                           id \o "_transformations.txt",
                                       transformation_type |-> run.trans,
                                       heap |-> run.heap,
                                       display |-> run.display_number]),
                                  "align_" \o id, id, run.display_number,
                                  reply)
                    IN  /\ run' = js.run
                        /\ job' = js.job
                        /\ call' = js.call
    /\ UNCHANGED <<nops, scriptobj>>

\* The last loop is over: main returns (None).
MainReturn ==
    /\ \/ run.prog = "batch" /\ run.pc = "loop" /\ run.i > Len(run.listing)
       \/ run.prog = "multi" /\ run.pc = "pairs" /\ run.todo = {}
    /\ run' = [run EXCEPT !.pc = "done", !.exit = ExitAfterReturn(None)]
    /\ UNCHANGED <<job, call, nops, scriptobj>>

InitMain ==
    /\ job = BlankJob
    /\ call = NoCall
    /\ nops = 0
    /\ scriptobj = NoScript
    /\ \E prog \in {"batch", "multi"} :
         \E cmd \in Cmds(prog), environ \in MainEnvirons :
            run = InitialRun(prog, cmd, environ)

NextMain ==
    \/ MainStart
    \/ BatchLoop
    \/ MultiScan
    \/ MultiScanEnd
    \/ MultiPair
    \/ MainReturn

SpecMain == InitMain /\ [][NextMain]_vars

----------------------------------------------------------------------------
(* Properties of the BatchJob object.                                      *)

\* The number of optional attributes of j holding a non-empty value.
NonEmptyCount(j) == Cardinality({a \in OptionalAttrSet : Truthy(j[a])})

\* The last operation was the assignment of an empty value (None or "") to
\* an attribute that held a non-empty value.
ClearedSetAttr ==
    /\ call.op = "set"
    /\ ~Truthy(call.value)
    /\ Truthy(call.before[call.attr])

\* The last operation was the assignment of a non-empty value to an
\* attribute that held a non-empty value, or of an empty value to an
\* attribute that held an empty value.
AssignedWithoutTransition ==
    /\ call.op = "set"
    /\ Truthy(call.value) <=> Truthy(call.before[call.attr])

\* C1: after construction and any sequence of assignments to the nine
\* optional attributes, attribute_count equals the number of attributes
\* that hold a non-empty value.
C1_CountEqualsNonEmpty == job.attribute_count = NonEmptyCount(job)

\* C2: assigning None or an empty value to an attribute that holds a
\* non-empty value decreases attribute_count by exactly 1.
C2_ClearDecrementsCount ==
    ClearedSetAttr =>
        job.attribute_count = call.before.attribute_count - 1

\* C3: assigning a non-empty value over a non-empty one, or an empty value
\* over an empty one, leaves attribute_count unchanged, and every field of
\* the object other than the assigned attribute keeps its value.
C3_NoTransitionKeepsCount ==
    AssignedWithoutTransition =>
        /\ job.attribute_count = call.before.attribute_count
        /\ \A f \in (DOMAIN job) \ {call.attr} : job[f] = call.before[f]
        /\ job[call.attr] = call.value

\* C3 witness: a new non-empty value was assigned over a different
\* non-empty value.
C3_Witness ==
    /\ call.op = "set"
    /\ Truthy(call.value)
    /\ Truthy(call.before[call.attr])
    /\ call.value # call.before[call.attr]

\* C4: attribute_count is never smaller than the number of non-empty
\* optional attributes; submit() allocates attribute_count + 1 slots and
\* every index it writes is below that capacity.
C4_NeverIndexesPastCapacity ==
    /\ job.attribute_count >= NonEmptyCount(job)
    /\ call.op = "submit" =>
          /\ call.capacity = call.before.attribute_count + 1
          /\ DOMAIN call.attropl = 0..(call.capacity - 1)
          /\ \A k \in 1..Len(call.writes) :
                call.writes[k].idx \in 0..(call.capacity - 1)

\* C4 witness: a submit() that wrote the environment entry and one entry for
\* each of several non-empty attributes, while other attributes were empty.
C4_Witness ==
    /\ call.op = "submit"
    /\ call.sent
    /\ Len(call.writes) = NonEmptyCount(call.before) + 1
    /\ NonEmptyCount(call.before) \in 2..8

\* C5: every one of the attribute_count + 1 slots of the list passed to
\* pbs_submit has been populated by submit().
C5_EverySlotPopulated ==
    (call.op = "submit" /\ call.sent) =>
        \A i \in DOMAIN call.attropl : call.attropl[i] # BlankSlot

\* The optional attributes with the resource each is sent under, in the
\* order the list must have.
CanonicalOrder ==
    << [attr |-> "name",            resource |-> None],
       [attr |-> "walltime",        resource |-> "walltime"],
       [attr |-> "nodes",           resource |-> "nodes"],
       [attr |-> "stdout_path",     resource |-> None],
       [attr |-> "stderr_path",     resource |-> None],
       [attr |-> "dependency_list", resource |-> None],
       [attr |-> "mail_options",    resource |-> None],
       [attr |-> "mem",             resource |-> "mem"],
       [attr |-> "vmem",            resource |-> "vmem"] >>

\* The (resource, value) pairs the list must hold for object j after the
\* environment entry.
ExpectedEntries(j) ==
    LET IsSet(c) == Truthy(j[c.attr])
        sel == SelectSeq(CanonicalOrder, IsSet)
    IN  [k \in 1..Len(sel) |->
            [resource |-> sel[k].resource, value |-> j[sel[k].attr]]]

\* The populated slots of an attropl array, in index order.
RECURSIVE PopulatedFrom(_, _)
PopulatedFrom(arr, i) ==
    IF i \notin DOMAIN arr THEN <<>>
    ELSE (IF arr[i] = BlankSlot THEN <<>> ELSE <<arr[i]>>)
         \o PopulatedFrom(arr, i + 1)

\* C6: the populated entries of the list are the environment attribute
\* followed by one entry per non-empty optional attribute, in the order
\* name, walltime, nodes, stdout, stderr, dependency, mail, mem, vmem, each
\* with the attribute's current value.
C6_AttroplInCanonicalOrder ==
    (call.op = "submit" /\ call.sent) =>
        LET pop == PopulatedFrom(call.attropl, 0)
            exp == ExpectedEntries(call.before)
        IN  /\ Len(pop) = Len(exp) + 1
            /\ pop[1].name = "ATTR_v"
            /\ pop[1].value = generate_env(call.before, call.environ).value
            /\ \A k \in 1..Len(exp) :
                  /\ pop[k + 1].resource = exp[k].resource
                  /\ pop[k + 1].value = exp[k].value
                  /\ (exp[k].resource # None) <=> (pop[k + 1].name = "ATTR_l")

\* C6 witness: a list was sent for an object with both stdout and stderr
\* paths set to different values and some attribute empty.
C6_Witness ==
    /\ call.op = "submit"
    /\ call.sent
    /\ Truthy(call.before.stdout_path)
    /\ Truthy(call.before.stderr_path)
    /\ call.before.stdout_path # call.before.stderr_path
    /\ ~Truthy(call.before.dependency_list)
    /\ Truthy(call.before.vmem)

\* The calls of c made on the connection, in order.
ConnectionCalls(c) ==
    LET OnConnection(x) ==
            x \in {"pbs_connect", "pbs_submit", "pbs_disconnect"}
    IN  SelectSeq(c, OnConnection)

\* C7: every call of submit() makes exactly one pbs_connect, one pbs_submit
\* and one pbs_disconnect, in this order, and the disconnect precedes the
\* return or raise that ends the call.
C7_ConnectSubmitDisconnectOnce ==
    call.op = "submit" =>
        /\ ConnectionCalls(call.calls) =
              <<"pbs_connect", "pbs_submit", "pbs_disconnect">>
        /\ call.calls[Len(call.calls)] \in {"return", "raise"}
        /\ \A k \in 1..(Len(call.calls) - 1) :
              call.calls[k] \notin {"return", "raise"}

\* C8: submit() returns the job id pbs_submit produced exactly when the
\* manager reports error code 0; when it reports a non-zero code submit()
\* raises an exception whose message holds the code and the manager's text.
C8_ReturnsIdIffCodeZero ==
    call.op = "submit" =>
        /\ (call.outcome.kind = "return" /\ call.outcome.value = call.reply.id)
              <=> (call.sent /\ call.reply.e = 0)
        /\ (call.sent /\ call.reply.e # 0) =>
              /\ call.outcome.kind = "raise"
              /\ call.outcome.value =
                    ToString(call.reply.e) \o ": " \o call.reply.e_msg

\* C8 witness: the manager rejected a submission and submit() raised.
C8_Witness ==
    /\ call.op = "submit"
    /\ call.sent
    /\ call.reply.e # 0
    /\ call.outcome.kind = "raise"

\* The environment block with the absent and the empty variables left
\* out: the working directory, the host, then KEY=VALUE for PATH, HOME and
\* LOGNAME, joined by commas.
EnvPair(environ, k) ==
    IF environ[k] \in {Absent, ""} THEN ""
    ELSE ",PBS_O_" \o k \o "=" \o environ[k]

EnvBlock(workdir, environ) ==
    "PBS_O_WORKDIR=" \o workdir \o ",PBS_O_HOST=" \o Getfqdn
    \o EnvPair(environ, "PATH") \o EnvPair(environ, "HOME")
    \o EnvPair(environ, "LOGNAME")

\* C15: submit() does not fail in generate_env, whichever of PATH, HOME and
\* LOGNAME are absent from the environment, and the environment entry of
\* the list is the block with the absent variables left out.
C15_AbsentVariableOmitted ==
    call.op = "submit" =>
        /\ ~(call.outcome.kind = "raise" /\ call.outcome.exc = "KeyError")
        /\ call.writes[1].entry.value =
               EnvBlock(call.before.workdir, call.environ)

\* C19: workdir is never empty; an assignment of None or of an empty value
\* resolves to the current directory of the process, a non-empty value is
\* stored as given, and the assignment changes nothing else of the object,
\* attribute_count included.
C19_WorkdirNeverEmpty ==
    /\ Truthy(job.workdir)
    /\ call.op = "set_workdir" =>
          /\ job.workdir = IF Truthy(call.value) THEN call.value ELSE Getcwd
          /\ job.attribute_count = call.before.attribute_count
          /\ \A f \in (DOMAIN job) \ {"workdir"} : job[f] = call.before[f]

\* C19 witness: an empty value was assigned to a workdir that held a
\* directory other than the current one.
C19_Witness ==
    /\ call.op = "set_workdir"
    /\ ~Truthy(call.value)
    /\ call.before.workdir # Getcwd
    /\ job.workdir = Getcwd

\* The place, in the writes of a submit(), of the entry for the stderr
\* path: after the environment entry and the entries of the non-empty
\* attributes that come before it.
StderrWrite ==
    2 + Cardinality({a \in {"name", "walltime", "nodes", "stdout_path"} :
                        Truthy(call.before[a])})

\* C25: the entry submit() appends for a set stderr path has an attribute
\* name other than the one of the stdout entry (ATTR_o), so that no list
\* has two entries under the name of standard output.
C25_StderrHasItsOwnAttribute ==
    (call.op = "submit" /\ call.sent /\ Truthy(call.before.stderr_path)) =>
        /\ call.writes[StderrWrite].entry.value = call.before.stderr_path
        /\ call.writes[StderrWrite].entry.name # "ATTR_o"
        /\ Cardinality({k \in 1..Len(call.writes) :
                           call.writes[k].entry.name = "ATTR_o"}) <= 1

\* C26: submit() changes no field of the descriptor but job_id, whether it
\* returns or raises; when it returns, job_id is the identifier returned;
\* and a submit() that follows a submit() in the same environment sends a
\* list again, the same list.
C26_SubmitChangesOnlyJobId ==
    call.op = "submit" =>
        /\ \A f \in (DOMAIN job) \ {"job_id"} : job[f] = call.before[f]
        /\ call.outcome.kind = "return" => job.job_id = call.outcome.value
        /\ (call.previous.op = "submit" /\ call.previous.sent
            /\ call.previous.environ = call.environ) =>
              /\ call.sent
              /\ call.attropl = call.previous.attropl

\* C26 witness: submit() has returned an identifier for a descriptor that a
\* submit() in the same environment had already given one.
C26_Witness ==
    /\ call.op = "submit"
    /\ call.previous.op = "submit"
    /\ call.previous.sent
    /\ call.previous.environ = call.environ
    /\ call.before.job_id # None
    /\ call.outcome.kind = "return"

\* The constructor argument that is assigned to attribute x.
ArgOf(x) ==
    CASE x = "stdout_path" -> "stdout"
      [] x = "stderr_path" -> "stderr"
      [] OTHER -> x

\* The number of optional constructor arguments given a non-empty value.
NonEmptyArgs(a) ==
    Cardinality({x \in OptionalAttrSet : Truthy(a[ArgOf(x)])})

\* C27: right after construction attribute_count is the number of optional
\* arguments given a non-empty value, whatever combination of values, None
\* and "" was passed; and a submit() of the object as constructed makes a
\* list of as many slots as it fills: one per such argument and one for
\* the environment.
C27_CountAfterConstruction ==
    /\ call.op = "new" =>
          /\ job.attribute_count = NonEmptyArgs(call.args)
          /\ \A x \in OptionalAttrSet : job[x] = call.args[ArgOf(x)]
    /\ (call.op = "submit" /\ call.previous.op = "new" /\ call.sent) =>
          /\ call.capacity = NonEmptyArgs(call.previous.args) + 1
          /\ call.capacity = Len(call.writes)
          /\ {call.writes[k].idx : k \in 1..Len(call.writes)}
                = 0..(call.capacity - 1)

\* C27 witness: an object constructed with a value, a None and an ""
\* among its arguments, four of them non-empty, has been submitted.
C27_Witness ==
    /\ call.op = "submit"
    /\ call.previous.op = "new"
    /\ call.sent
    /\ call.previous.args.name = ""
    /\ call.previous.args.walltime = None
    /\ call.previous.args.mem = "v"
    /\ NonEmptyArgs(call.previous.args) = 4
    /\ call.capacity = 5

----------------------------------------------------------------------------
(* Properties of the runs of main().                                       *)

\* The run is over: main returned or an exception left it.
RunEnded == run.pc \in {"done", "crashed"}

\* The keys of the jobs the run has called submit() for.
AttemptedKeys == {run.jobs[k].key : k \in 1..Len(run.jobs)}

\* The keys of the inputs of the run that are to get a job: in batch the
\* entries with a .tif/.tiff extension, in multi the ids with both a B and
\* a G stack.
InputKeys ==
    IF run.prog = "batch"
    THEN {Str(run.listing[k]) :
             k \in {n \in 1..Len(run.listing) :
                       IsTiff(splitext(run.listing[n])[2])}}
    ELSE {id \in DOMAIN run.pairs : LenStacks(run.pairs[id]) = 2}

\* A job of the run failed: its submit() raised.
SomeJobFailed ==
    \E k \in 1..Len(run.jobs) : run.jobs[k].outcome.kind = "raise"

\* C9: when a run has ended, by a return or by an exception, no temporary
\* script file it created still exists.
C9_NoTempFileLeft == RunEnded => run.tmpfiles = {}

\* C10: when the submission of one job has failed, the run still makes a
\* submit() call for every other input (file, or matched pair) before it
\* ends.
C10_FailureDoesNotStopRun ==
    (RunEnded /\ SomeJobFailed /\ (run.prog = "multi" => run.scanned)) =>
        InputKeys \subseteq AttemptedKeys

\* The run ended with a run-level error: main returned the code of a
\* command-line error (2 for an option-parsing error, 1 for a wrong number
\* of positional arguments or an unrecognized transformation type), or an
\* assertion of the pair scan failed (a channel marker that is not B or G,
\* a group exceeding two entries).
RunLevelError ==
    \/ run.pc = "done" /\ run.ret \in {"1", "2"}
    \/ run.pc = "crashed" /\ run.exc = "AssertionError"

\* C11: a run that ends with a run-level error has issued no submit
\* operation: no job was attempted and no BatchJob was submitted.
C11_RunLevelErrorBeforeAnySubmit ==
    RunLevelError => (run.jobs = <<>> /\ call = NoCall)

\* C11 witness: a paired-mode run stopped by a failed assertion of the pair
\* scan after both stacks of some identifier had already been found.
C11_Witness ==
    /\ run.prog = "multi"
    /\ RunLevelError
    /\ run.pc = "crashed"
    /\ \E id \in DOMAIN run.pairs : LenStacks(run.pairs[id]) = 2

\* The stack files of the directory: the entries whose name ends, in any
\* case, with suffix after a non-empty stem.
EndsWithNoCase(f, suffix) ==
    /\ Len(f) > Len(suffix)
    /\ upper(SubSeq(f, Len(f) - Len(suffix) + 1, Len(f))) = upper(suffix)

IsStackFile(f) ==
    \/ EndsWithNoCase(f, <<".", "t", "i", "f">>)
    \/ EndsWithNoCase(f, <<".", "t", "i", "f", "f">>)

StackFiles ==
    {run.listing[k] : k \in {n \in 1..Len(run.listing) :
                                IsStackFile(run.listing[n])}}

\* The identifier of a stack file, the text before its first "_", and the
\* stack files of an identifier with a channel marker.
IdOf(f) == Str(split(splitext(f)[1], "_")[1])

FilesOf(id, channel) ==
    {f \in StackFiles :
        /\ IdOf(f) = id
        /\ Len(split(splitext(f)[1], "_")) >= 2
        /\ Str(split(splitext(f)[1], "_")[2]) = channel}

\* The submit() calls of the run made for key, and the skips reported for
\* the stack files of an identifier.
JobsFor(key) == {k \in 1..Len(run.jobs) : run.jobs[k].key = key}

SkipsFor(id) ==
    {k \in 1..Len(run.out) :
        \E f \in StackFiles :
            /\ IdOf(f) = id
            /\ run.out[k] = "Unable to match " \o Str(f)
                            \o " with another stack.  Skipping..."}

\* A paired-mode run has ended after its pair scan found no error.
PairedRunEnded == run.prog = "multi" /\ run.scanned /\ RunEnded

\* C16: at the end of a paired-mode run, every identifier of the directory
\* with a B and a G stack has exactly one job, whose background input is
\* its B file and whose glomeruli input is its G file, and every identifier
\* with one channel only has no job and one reported skip.
C16_OneJobPerMatchedPair ==
    PairedRunEnded =>
        \A id \in {IdOf(f) : f \in StackFiles} :
            IF FilesOf(id, "B") # {} /\ FilesOf(id, "G") # {}
            THEN /\ Cardinality(JobsFor(id)) = 1
                 /\ \A k \in JobsFor(id) :
                      /\ \E f \in FilesOf(id, "B") :
                            run.jobs[k].tokens["BACKGROUND_IN"] = Str(f)
                      /\ \E f \in FilesOf(id, "G") :
                            run.jobs[k].tokens["GLOMERULI_IN"] = Str(f)
            ELSE /\ JobsFor(id) = {}
                 /\ Cardinality(SkipsFor(id)) = 1

\* C17: a paired-mode run whose directory holds three or more stack files
\* of one identifier ends with a run-level error.
C17_ThreeStacksOfOneIdRejected ==
    (run.prog = "multi" /\ RunEnded
     /\ \E id \in {IdOf(f) : f \in StackFiles} :
           Cardinality({f \in StackFiles : IdOf(f) = id}) >= 3)
    => RunLevelError

\* C18: in a paired-mode run the k-th job for which a script is generated
\* has display number 1000 + (k - 1), in its record and in the DNUM token of
\* its script; skipped groups take no number.
C18_DisplayNumbersConsecutive ==
    run.prog = "multi" =>
        \A k \in 1..Len(run.jobs) :
            /\ run.jobs[k].display = 1000 + (k - 1)
            /\ run.jobs[k].tokens["DNUM"] = ToString(1000 + (k - 1))

\* C18 witness: a paired-mode run that has made two jobs.
C18_Witness ==
    /\ run.prog = "multi"
    /\ Len(run.jobs) = 2
    /\ run.jobs[2].display = 1001

\* The argument of the last option of the command line among names, or
\* default.
OptArg(names, default) ==
    LET at == {k \in 1..Len(run.cmd.options) :
                  run.cmd.options[k].opt \in names}
    IN  IF at = {} THEN default
        ELSE Str(run.cmd.options[CHOOSE k \in at : \A m \in at : m <= k].arg)

\* A single-stack run has returned from its loop, every submission having
\* succeeded.
BatchRunSucceeded ==
    /\ run.prog = "batch"
    /\ run.pc = "done"
    /\ run.ret = None
    /\ \A k \in 1..Len(run.jobs) : run.jobs[k].outcome.kind = "return"

\* C20: at the end of a single-stack run in which every submission
\* succeeded, every stack file of the directory has exactly one job, no
\* other entry has a job, and every job was built with name align_<file>,
\* nodes 1:ppn=8, mail options ae and the walltime, mem and vmem of the run.
C20_OneJobPerStackFile ==
    BatchRunSucceeded =>
        /\ \A n \in 1..Len(run.listing) :
              Cardinality(JobsFor(Str(run.listing[n]))) =
                  IF IsStackFile(run.listing[n]) THEN 1 ELSE 0
        /\ Len(run.jobs) = Cardinality(StackFiles)
        /\ \A k \in 1..Len(run.jobs) :
              LET j == run.jobs[k].job
              IN  /\ j.name = "align_" \o run.jobs[k].key
                  /\ j.nodes = "1:ppn=8"
                  /\ j.mail_options = "ae"
                  /\ j.walltime = OptArg({"-w", "--walltime"}, "4:00:00")
                  /\ j.mem = OptArg({"-m", "--mem"}, "14") \o "gb"
                  /\ j.vmem = OptArg({"-v", "--vmem"}, "25") \o "gb"

\* C20 witness: a single-stack run given -w, --mem and -v has ended, with a
\* job for a .tif and a job for a .TIFF entry and none for a third entry.
C20_Witness ==
    /\ BatchRunSucceeded
    /\ run.cmd.options # <<>>
    /\ Len(run.jobs) = 2
    /\ Len(run.listing) = 3
    /\ \E k \in 1..2 : run.jobs[k].key = "b.TIFF"

\* The physical memory requested on the command line, in GB: the argument
\* of the last -m or --mem option, or 14.
MemRequest ==
    LET at == {k \in 1..Len(run.cmd.options) :
                  run.cmd.options[k].opt \in {"-m", "--mem"}}
    IN  IF at = {} THEN 14
        ELSE PyInt(run.cmd.options[CHOOSE k \in at :
                                      \A m \in at : m <= k].arg).value

\* heap is the text of h, the largest integer not above 93% of the
\* requested memory in MB, and every script of the run is given it.
HeapIsFloor(h) ==
    /\ 100 * h <= MemRequest * 1024 * 93
    /\ MemRequest * 1024 * 93 < 100 * (h + 1)
    /\ run.heap = ToString(h)
    /\ \A k \in 1..Len(run.jobs) :
          run.jobs[k].tokens["HEAP"] = "--heap " \o ToString(h)

\* C21 as stated: once computed, the heap is the floor of 93% of the
\* requested memory in MB, and for a request of 14 GB it is 13333.
C21_HeapOf14Is13333 ==
    run.heap # None =>
        /\ HeapIsFloor((MemRequest * 1024 * 93) \div 100)
        /\ MemRequest = 14 => run.heap = "13333"

\* C21 amended: once computed, the heap is the floor of 93% of the
\* requested memory in MB, and for a request of 14 GB it is 13332.
C21_HeapOf14Is13332 ==
    run.heap # None =>
        /\ HeapIsFloor((MemRequest * 1024 * 93) \div 100)
        /\ MemRequest = 14 => run.heap = "13332"

\* C21 witness: a run with the default request of 14 GB has built a script
\* with heap 13332.
C21_Witness ==
    /\ run.heap # None
    /\ MemRequest = 14
    /\ Len(run.jobs) >= 1
    /\ run.jobs[1].tokens["HEAP"] = "--heap 13332"

\* The command line has an option among names.
HasOption(names) ==
    \E k \in 1..Len(run.cmd.options) : run.cmd.options[k].opt \in names

\* An argument is invalid: a memory argument is not a number, or the
\* transformation type (paired mode) is not a known one.
InvalidArgument ==
    \/ \E k \in 1..Len(run.cmd.options) :
          /\ run.cmd.options[k].opt \in {"-m", "--mem", "-v", "--vmem"}
          /\ PyInt(run.cmd.options[k].arg).raised
    \/ /\ run.prog = "multi"
       /\ OptArg({"-t", "--transformation"}, "Rigid Body")
              \notin {"Rigid Body", "Translation", "Scaled Rotation", "Affine"}

HelpRequested == ~run.cmd.getopt_error /\ HasOption({"-h", "--help"})

\* C23: the exit status of an ended run is 2 when option parsing failed;
\* otherwise 0 when help was requested; otherwise 1 when the directory
\* argument is missing or an argument is invalid; and 0 when the run
\* succeeded.
C23_ExitCodes ==
    RunEnded =>
        /\ run.cmd.getopt_error => run.exit = "2"
        /\ HelpRequested => run.exit = "0"
        /\ (~run.cmd.getopt_error /\ ~HelpRequested
            /\ (Len(run.cmd.remainder) # 1 \/ InvalidArgument))
              => run.exit = "1"
        /\ (run.pc = "done" /\ run.ret = None) => run.exit = "0"

\* C24: in a run given -h or --help, the directory is never listed, no job
\* is made, and the run ends by a return after printing the usage message.
C24_HelpEndsRunBeforeScan ==
    HelpRequested =>
        /\ run.pc \in {"start", "done"}
        /\ run.listing = <<>>
        /\ run.jobs = <<>>
        /\ run.pc = "done" =>
              \E k \in 1..Len(run.out) : run.out[k] = "usage"

----------------------------------------------------------------------------
(* Properties of generate_script().                                        *)

\* generate_script() has been called on scriptobj.
Generated == call.op = "generate_script"

\* The tokens whose value is None, and those whose value is None or empty.
UnsetTokens == {k \in DOMAIN scriptobj.tokens : scriptobj.tokens[k] = None}
EmptyOrUnsetTokens ==
    {k \in DOMAIN scriptobj.tokens : ~Truthy(scriptobj.tokens[k])}

\* The placeholders of the object's template that have no token.
UnboundPlaceholders == Unbound(scriptobj.template, scriptobj.tokens)

\* The result is the missing-token error, naming a key of the set keys.
MissingTokenError(keys) ==
    /\ call.result.raised
    /\ call.result.exc = "Exception"
    /\ call.result.keys # {}
    /\ call.result.keys \subseteq keys
    /\ call.result.pieces = <<>>

\* C12 as stated: generate_script fails with the missing-token error,
\* naming such a key, whenever a token value is empty or unset, and
\* succeeds only when no token value is empty or unset.
C12_FailsOnEmptyOrUnsetToken ==
    Generated =>
        /\ EmptyOrUnsetTokens # {} => MissingTokenError(EmptyOrUnsetTokens)
        /\ ~call.result.raised => EmptyOrUnsetTokens = {}

\* C12 amended: generate_script fails with the missing-token error, naming
\* such a key and before any substitution, whenever a token value is None;
\* an empty string is a value like any other: when no token is None and
\* every placeholder has a token, rendering succeeds.
C12_FailsOnUnsetToken ==
    Generated =>
        /\ UnsetTokens # {} => MissingTokenError(UnsetTokens)
        /\ ~call.result.raised => UnsetTokens = {}
        /\ (UnsetTokens = {} /\ UnboundPlaceholders = {})
               => ~call.result.raised

\* C12 witness: generate_script was called on an object with a None token
\* and a placeholder without token, and gave the missing-token error.
C12_Witness ==
    /\ Generated
    /\ UnsetTokens # {}
    /\ UnboundPlaceholders # {}
    /\ call.result.exc = "Exception"

\* C13: generate_script gives either an error and no output, or the script
\* in which every placeholder of the template is replaced by its token
\* value; with a placeholder that has no token it gives an error.
C13_CompleteScriptOrError ==
    Generated =>
        IF call.result.raised
        THEN call.result.pieces = <<>> /\ call.result.value = ""
        ELSE /\ UnboundPlaceholders = {}
             /\ Len(call.result.pieces) = Len(scriptobj.template)
             /\ \A n \in 1..Len(scriptobj.template) :
                   scriptobj.template[n].kind = "var" =>
                       call.result.pieces[n] =
                           Text(scriptobj.tokens[scriptobj.template[n].text])
             /\ call.result.value = Concat(call.result.pieces)

\* C13 witness: generate_script was called on an object whose tokens are
\* all set but whose template has a placeholder without token, and raised.
C13_Witness ==
    /\ Generated
    /\ UnsetTokens = {}
    /\ UnboundPlaceholders # {}
    /\ call.result.raised
    /\ call.result.exc = "KeyError"

\* The markers a scan of a script finds: the positions of a `$` that an
\* identifier follows.
LeftoverMarkers(pieces) ==
    {n \in 1..(Len(pieces) - 1) :
        pieces[n].kind = "dollar" /\ pieces[n + 1].kind = "ident"}

\* The identifiers of the markers of a script.
MarkerNames(pieces) ==
    {pieces[n + 1].text : n \in LeftoverMarkers(pieces)}

\* C14 as stated: with every placeholder bound to a non-empty value,
\* rendering a built-in template succeeds and a scan of the output for a
\* `$` followed by an identifier finds none.
C14_NoDollarIdentifierInOutput ==
    (Generated /\ UnboundPlaceholders = {} /\ EmptyOrUnsetTokens = {}) =>
        /\ ~call.result.raised
        /\ LeftoverMarkers(call.result.pieces) = {}

\* C14 amended: with every placeholder bound to a value that is not None,
\* rendering a built-in template succeeds and the only `$` followed by an
\* identifier in the output are the shell variables the template writes
\* with `$$`: $PBS_O_WORKDIR and, in the paired template, $DISPLAY.
C14_OnlyShellVariablesInOutput ==
    (Generated /\ UnboundPlaceholders = {} /\ UnsetTokens = {}) =>
        /\ ~call.result.raised
        /\ MarkerNames(call.result.pieces) =
               IF scriptobj.cls = "SubmitScript" THEN {"PBS_O_WORKDIR"}
               ELSE {"PBS_O_WORKDIR", "DISPLAY"}

\* C14 witness: a paired script rendered with every token set, its HEAP
\* token being the empty string.
C14_Witness ==
    /\ Generated
    /\ scriptobj.cls = "BatchScript"
    /\ UnboundPlaceholders = {}
    /\ UnsetTokens = {}
    /\ scriptobj.tokens["HEAP"] = ""
    /\ ~call.result.raised

----------------------------------------------------------------------------
(* Properties of the tokens the script constructors set.                   *)

\* The name of path p with its directory part removed, and the place of
\* the dot that starts its extension (0 when it has none).
BaseName(p) ==
    LET seps == {k \in 1..Len(p) : p[k] = "/"}
    IN  IF seps = {} THEN p
        ELSE SubSeq(p, 1 + CHOOSE k \in seps : \A m \in seps : m <= k, Len(p))

ExtensionDot(name) ==
    LET dots == {k \in 2..Len(name) : name[k] = "."}
    IN  IF dots = {} THEN 0 ELSE CHOOSE k \in dots : \A m \in dots : m <= k

\* The default output name for path p: its base name without extension,
\* then mark, then its extension.
DefaultOutput(p, mark) ==
    LET name == BaseName(p)
        dot  == ExtensionDot(name)
    IN  IF dot = 0 THEN Str(name) \o mark
        ELSE Str(SubSeq(name, 1, dot - 1)) \o mark
             \o Str(SubSeq(name, dot, Len(name)))

\* C22: the STACK_OUT token of a SubmitScript is the explicit output when a
\* non-empty one was given, and otherwise the base name of the input
\* without directory and extension, then -aligned, then the extension.
C22_DefaultStackOut ==
    (scriptobj.cls = "SubmitScript"
     /\ "STACK_OUT" \in DOMAIN scriptobj.tokens) =>
        scriptobj.tokens["STACK_OUT"] =
            IF Truthy(scriptobj.args.output) THEN scriptobj.args.output
            ELSE DefaultOutput(scriptobj.args.input, "-aligned")

\* C22 witness: SubmitScript('sample.tiff') has been built and rendered,
\* with STACK_OUT sample-aligned.tiff.
C22_Witness ==
    /\ Generated
    /\ scriptobj.cls = "SubmitScript"
    /\ scriptobj.args.output = None
    /\ scriptobj.tokens = SubmitScript_init(scriptobj.args.input, None,
                                            scriptobj.args.heap)
    /\ scriptobj.tokens["STACK_IN"] = "sample.tiff"
    /\ scriptobj.tokens["STACK_OUT"] = "sample-aligned.tiff"
    /\ ~call.result.raised

\* C28: the GLOMERULI_OUT token of a BatchScript is the glomeruli_out
\* argument as given when background_out is non-empty, and otherwise the
\* default derived from glomeruli_in, whatever glomeruli_out is; with a
\* non-empty background_out and no glomeruli_out, generate_script fails
\* with the uninitialized-token error.
C28_GlomeruliOutFollowsBackgroundOut ==
    (scriptobj.cls = "BatchScript"
     /\ "GLOMERULI_OUT" \in DOMAIN scriptobj.tokens) =>
        /\ scriptobj.tokens["GLOMERULI_OUT"] =
              IF Truthy(scriptobj.args.background_out)
              THEN scriptobj.args.glomeruli_out
              ELSE DefaultOutput(scriptobj.args.glomeruli_in, "_aligned")
        /\ (Generated /\ Truthy(scriptobj.args.background_out)
            /\ scriptobj.args.glomeruli_out = None) =>
              /\ call.result.raised
              /\ call.result.exc = "Exception"
              /\ "GLOMERULI_OUT" \in call.result.keys

\* C28 witness: generate_script was called on a BatchScript built with a
\* background_out and no glomeruli_out, all its other tokens being set.
C28_Witness ==
    /\ Generated
    /\ scriptobj.cls = "BatchScript"
    /\ Truthy(scriptobj.args.background_out)
    /\ scriptobj.args.glomeruli_out = None
    /\ UnsetTokens = {"GLOMERULI_OUT"}
    /\ call.result.raised

====
